---- MODULE Spec2Model ----
(***************************************************************************)
(* The staged bootstrap scheduler (LoaderService) of atlas: four phase     *)
(* queues drained in order, one queue item at a time, each item gated by   *)
(* its done callback, a diagnostic timeout per item and a one-shot finish  *)
(* subject.  The rxjs subjects, the timer pool and the nextTick queue of   *)
(* the host are modelled by what the code uses of them.                    *)
(***************************************************************************)
EXTENDS Integers, Sequences, FiniteSets, TLC

VARIABLES
    meta,            \* Reflect metadata LOADER_QUEUE_ITEM of the loader service
    queue,           \* LoaderService.queue: phase -> ordered Map key -> item
    count,           \* the four count subjects of the queue
    startingSubject, \* LoaderService.startingSubject$
    finishSubject,   \* LoaderService.finishSubject$
    isBootstrapped,  \* LoaderService.isBootstrapped
    ticks,           \* callbacks handed to alt.nextTick, oldest first
    timers,          \* the host's pending timeouts
    nextTimerId,     \* the id the host gives the next timer
    inv,             \* every call of a queue item's method, oldest first
    log,             \* the lines given to UtilsService.log by the loader, and
                     \* the rejections of processQueueItem, which nobody awaits
    registered,      \* per callback: when it was given to done()
    called,          \* per callback: how often it has been called
    rootResolved,    \* container.resolve(target) of the root: "no", "yes", "threw"
    rebooted,        \* bootstrap has been called on a bootstrapped loader
    dups,            \* repeated calls of a done callback so far
    hostClearsAny,   \* alt.clearInterval also stops a timeout of that id
    hist,            \* history: the runs of processQueue and the values the
                     \* subscribers of bootstrap got from the counts, in order
    events,          \* BaseEventService.events
    handlers,        \* BaseEventService.handlers
    trace,           \* what autoStart has done so far, in order
    outcome,         \* of the call of autoStart: "none", "returned", "threw"
    commands,        \* Reflect metadata CONSOLE_COMMAND of the event service
    decorated        \* the @Cmd decorators applied so far, oldest first

vars == <<meta, queue, count, startingSubject, finishSubject, isBootstrapped,
          ticks, timers, nextTimerId, inv, log, registered, called,
          rootResolved, rebooted, dups, hostClearsAny, hist,
          events, handlers, trace, outcome, commands, decorated>>

\* the state of the loader, and the state of the event service and its decorators
loaderVars == <<meta, queue, count, startingSubject, finishSubject,
                isBootstrapped, ticks, timers, nextTimerId, inv, log, registered,
                called, rootResolved, rebooted, dups, hostClearsAny, hist>>
serviceVars == <<events, handlers, trace, outcome, commands, decorated>>

(***************************************************************************)
(* Bounds of the model.                                                    *)
(***************************************************************************)
MaxReg == 2          \* registrations (uses of @Autoload)
MaxCallbacks == 1    \* callbacks given to done()
MaxDup == 1          \* repeated calls of a done callback
MaxList == 3         \* descriptors in a metadata list given as a whole
MaxEvents == 2       \* listeners added to the event service
MaxHandlers == 1     \* entity handlers added to the event service
MaxCmd == 2          \* uses of @Cmd
ShortTimeout == 100  \* a doneCheckTimeout other than the default

(***************************************************************************)
(* Program constants.                                                      *)
(***************************************************************************)
DefaultDoneCheckTimeout == 5000
WarmUpDelay == 125

PhaseOrder == <<"frameworkBeforeBoot", "before", "after", "frameworkAfterBoot">>
PhaseNames == {PhaseOrder[i] : i \in 1..Len(PhaseOrder)}
PhaseIndex(p) == CHOOSE i \in 1..Len(PhaseOrder) : PhaseOrder[i] = p

NoKey == <<>>        \* key = null
NoTimer == 0         \* doneCheckIntervalId undefined
NoPhase == ""

(***************************************************************************)
(* The world the loader runs in: targets, their methods, the resolver.     *)
(***************************************************************************)
ClassA == [isString |-> FALSE, name |-> <<"A">>]
ClassB == [isString |-> FALSE, name |-> <<"B">>]
Token == [isString |-> TRUE, name |-> <<"T">>]   \* an injection token, a string

MethodDefer == <<"m">>   \* calls done on a later tick or from a nested callback
MethodSync == <<"s">>    \* calls done before it returns
MethodAbsent == <<"x">>  \* no instance has it
MethodThrows == <<"t">>  \* throws before it calls done, and never calls it
MethodDoneThrows == <<"d">>  \* calls done, then throws

\* container.resolve(target) of an item: a class resolves, a token nobody
\* registered throws
Resolves(target) == ~target.isString

\* instance[methodName] is defined
HasMethod(target, methodName) == methodName # MethodAbsent

\* the method throws instead of returning
Throws(target, methodName) == methodName \in {MethodThrows, MethodDoneThrows}

\* the method calls its done callback before returning
CallsDoneSync(target, methodName) == methodName \in {MethodSync, MethodDoneThrows}

QueueItem(type, target, methodName, doneCheckTimeout) ==
    [type |-> type, target |-> target, methodName |-> methodName,
     doneCheckTimeout |-> doneCheckTimeout]

\* the descriptors @Autoload is used with
Universe ==
    {QueueItem("frameworkBeforeBoot", ClassA, MethodDefer, DefaultDoneCheckTimeout),
     QueueItem("before", ClassA, MethodDefer, DefaultDoneCheckTimeout),
     QueueItem("before", ClassB, MethodSync, ShortTimeout),
     QueueItem("before", ClassB, MethodAbsent, DefaultDoneCheckTimeout),
     QueueItem("frameworkAfterBoot", ClassA, MethodDefer, DefaultDoneCheckTimeout)}

\* descriptors whose item fails when it is run
Failing ==
    {QueueItem("before", Token, MethodDefer, DefaultDoneCheckTimeout),
     QueueItem("before", ClassA, MethodThrows, DefaultDoneCheckTimeout),
     QueueItem("before", ClassB, MethodDoneThrows, DefaultDoneCheckTimeout)}

\* a descriptor with the key of another one of its phase and other options
Reregistered ==
    {QueueItem("before", ClassA, MethodDefer, ShortTimeout)}

\* two descriptors with different targets and methods and one key, A_b_m
ClassAb == [isString |-> FALSE, name |-> <<"A", "_", "b">>]
MethodUnderscore == <<"b", "_", "m">>  \* calls done later, like MethodDefer
Colliding ==
    {QueueItem("before", ClassAb, MethodDefer, DefaultDoneCheckTimeout),
     QueueItem("before", ClassA, MethodUnderscore, DefaultDoneCheckTimeout)}

\* the metadata lists bootstrap may find
ListItems == Universe \cup Reregistered \cup Colliding
Lists == UNION {[1..n -> ListItems] : n \in 0..MaxList}

Callbacks == 1..MaxCallbacks

(***************************************************************************)
(* Strings as sequences of characters, and the ordered Map.                *)
(***************************************************************************)
TargetName(target) == target.name

\* `${targetName}_${queueItem.methodName}`
Identifier(item) == TargetName(item.target) \o <<"_">> \o item.methodName

RECURSIVE Split(_, _)
\* String.prototype.split on a one-character separator
Split(s, sep) ==
    IF \A i \in 1..Len(s) : s[i] # sep
    THEN <<s>>
    ELSE LET i == CHOOSE j \in 1..Len(s) :
                      s[j] = sep /\ \A k \in 1..(j - 1) : s[k] # sep
         IN <<SubSeq(s, 1, i - 1)>> \o Split(SubSeq(s, i + 1, Len(s)), sep)

\* const [a, b] = array: a missing element is undefined
Nth(parts, n) == IF n <= Len(parts) THEN parts[n] ELSE <<"undefined">>

MapHas(m, k) == \E i \in 1..Len(m) : m[i].key = k

\* a Map whose set moves a present key to the end
MapSetMovesLast(m, k, v) ==
    Append(SelectSeq(m, LAMBDA e : e.key # k), [key |-> k, value |-> v])

\* a Map whose set leaves a present key alone
MapSetFirstWins(m, k, v) ==
    IF MapHas(m, k) THEN m ELSE Append(m, [key |-> k, value |-> v])

\* Map.prototype.set: a present key keeps its place and takes the new value
MapSet(m, k, v) ==
    IF MapHas(m, k)
    THEN [i \in 1..Len(m) |-> IF m[i].key = k THEN [key |-> k, value |-> v] ELSE m[i]]
    ELSE Append(m, [key |-> k, value |-> v])

MapDeleteTest(e, k) == e.key # k
\* Map.prototype.delete
MapDelete(m, k) == SelectSeq(m, LAMBDA e : MapDeleteTest(e, k))

(***************************************************************************)
(* The part of the state the handlers of the loader change, as one record. *)
(***************************************************************************)
Cur == [queue |-> queue, count |-> count, ticks |-> ticks, timers |-> timers,
        nextTimerId |-> nextTimerId, inv |-> inv, log |-> log, hist |-> hist]

Commit(S0) ==
    \E S \in {S0} :
        /\ queue' = S.queue
        /\ count' = S.count
        /\ ticks' = S.ticks
        /\ timers' = S.timers
        /\ nextTimerId' = S.nextTimerId
        /\ hist' = S.hist
        /\ inv' = S.inv
        /\ log' = S.log

\* The handlers below take the state S0 they are entered in and give the state
\* they leave; each binds it once to S, as a call evaluates its argument once.
Result(states) == CHOOSE S \in states : TRUE

\* new LoaderServiceQueueModel(): four empty Maps, four count subjects
NewQueue == [p \in PhaseNames |-> <<>>]
NewSubject == [stopped |-> FALSE, takeLast |-> FALSE, buffer |-> <<>>, filters |-> 0]
NewCounts == [p \in PhaseNames |-> NewSubject]

Thunk(fn, phase) == [fn |-> fn, phase |-> phase]

\* an entry of the history
Event(ev, phase) == [ev |-> ev, phase |-> phase]

\* a nextTick that never runs its listener
NextTickDropped(S, thunk) == S

\* UtilsService.nextTick(listener)
NextTick(S, thunk) == [S EXCEPT !.ticks = Append(@, thunk)]

\* UtilsService.setTimeout(listener, duration): the host returns the timer's id
SetTimeout(S, kind, duration, moduleName, methodName) ==
    [S EXCEPT !.timers = @ \cup {[id |-> S.nextTimerId, kind |-> kind,
                                  duration |-> duration, moduleName |-> moduleName,
                                  methodName |-> methodName]},
              !.nextTimerId = @ + 1]

\* UtilsService.clearInterval(id), given the id of a timeout
ClearInterval(S, id) ==
    IF hostClearsAny THEN [S EXCEPT !.timers = {t \in @ : t.id # id}] ELSE S

\* the wiring with the subscriber of the second count starting the first
\* phase again
DrainedThunkBack(p) ==
    CASE p = "frameworkBeforeBoot" -> Thunk("processQueue", "before")
      [] p = "before"              -> Thunk("processQueue", "frameworkBeforeBoot")
      [] p = "after"               -> Thunk("processQueue", "frameworkAfterBoot")
      [] p = "frameworkAfterBoot"  -> Thunk("finishUpBooting", NoPhase)

\* the wiring with the subscriber of the first count starting the third phase
DrainedThunkSkipping(p) ==
    CASE p = "frameworkBeforeBoot" -> Thunk("processQueue", "after")
      [] p = "before"              -> Thunk("processQueue", "after")
      [] p = "after"               -> Thunk("processQueue", "frameworkAfterBoot")
      [] p = "frameworkAfterBoot"  -> Thunk("finishUpBooting", NoPhase)

\* what the subscriber bootstrap put on a phase's count does with its one value
DrainedThunk(p) ==
    CASE p = "frameworkBeforeBoot" -> Thunk("processQueue", "before")
      [] p = "before"              -> Thunk("processQueue", "after")
      [] p = "after"               -> Thunk("processQueue", "frameworkAfterBoot")
      [] p = "frameworkAfterBoot"  -> Thunk("finishUpBooting", NoPhase)

RECURSIVE DoneCallback(_, _, _, _)
RECURSIVE ProcessQueueItem(_, _)
RECURSIVE NotifyFilters(_, _, _)
RECURSIVE ProcessQueue(_, _)

\* the subscribers of bootstrap calling processQueue themselves, with no
\* nextTick in between
CountCompleteInline(S0, p) == Result({
    IF S.count[p].stopped THEN S
    ELSE LET S1 == [S EXCEPT !.count[p].stopped = TRUE, !.count[p].filters = 0,
                             !.hist = Append(@, Event("drained", p))]
         IN IF S.count[p].takeLast /\ S.count[p].buffer # <<>>
            THEN IF DrainedThunk(p).fn = "processQueue"
                 THEN ProcessQueue(S1, DrainedThunk(p).phase)
                 ELSE NextTick(S1, DrainedThunk(p))
            ELSE S1
    : S \in {S0}})

CountCompleteAgain(S0, p) == Result({
    LET S1 == [S EXCEPT !.count[p].stopped = TRUE, !.count[p].filters = 0]
    IN IF S.count[p].takeLast /\ S.count[p].buffer # <<>>
       THEN NextTick([S1 EXCEPT !.hist = Append(@, Event("drained", p))],
                     DrainedThunk(p))
       ELSE S1
    : S \in {S0}})

\* propertyCount.complete(): takeLast(1) hands on its buffered value, once
CountComplete(S0, p) == Result({
    IF S.count[p].stopped THEN S
    ELSE LET S1 == [S EXCEPT !.count[p].stopped = TRUE, !.count[p].filters = 0]
         IN IF S.count[p].takeLast /\ S.count[p].buffer # <<>>
            THEN NextTick([S1 EXCEPT !.hist = Append(@, Event("drained", p))],
                          DrainedThunk(p))
            ELSE S1
    : S \in {S0}})

\* the subscribers processQueue added, each behind filter(size !== 0)
NotifyFilters(S0, p, n) == Result({
    IF n = 0 \/ S.count[p].stopped THEN S
    ELSE NotifyFilters(ProcessQueueItem(S, p), p, n - 1)
    : S \in {S0}})

\* propertyCount.next(size)
CountNext(S0, p, size) == Result({
    IF S.count[p].stopped THEN S
    ELSE LET S1 == IF S.count[p].takeLast
                   THEN [S EXCEPT !.count[p].buffer = <<size>>]
                   ELSE S
         IN IF size # 0 THEN NotifyFilters(S1, p, S.count[p].filters) ELSE S1
    : S \in {S0}})

\* LoaderService.doneCallback
DoneCallback(S0, p, key, doneCheckIntervalId) == Result({
    LET S1 == IF doneCheckIntervalId # NoTimer
              THEN ClearInterval(S, doneCheckIntervalId)
              ELSE S
        S2 == IF key # NoKey
              THEN [S1 EXCEPT !.queue[p] = MapDelete(@, key)]
              ELSE S1
    IN Result({IF Len(S3.queue[p]) = 0 THEN CountComplete(S3, p) ELSE S3
               : S3 \in {CountNext(S2, p, Len(S2.queue[p]))}})
    : S \in {S0}})

\* the done callback bound for call i of a method is called
CallDone(S0, i) == Result({
    DoneCallback([S EXCEPT !.inv[i].done = @ + 1],
                 S.inv[i].phase, S.inv[i].key, S.inv[i].timer)
    : S \in {S0}})

\* the entry set last instead of the entry set first
Latest(m) == m[Len(m)]

\* property.values().next().value and property.keys().next().value
Earliest(m) == m[1]

\* processQueueItem as a plain function: the exception goes to its caller
ResolveThrewToCaller(S, moduleName, methodName) ==
    [S EXCEPT !.log = Append(@, [kind |-> "thrown", moduleName |-> moduleName,
                                 methodName |-> methodName])]

\* container.resolve(nextItem.target) threw: the async function rejects
ResolveThrew(S, moduleName, methodName) ==
    [S EXCEPT !.log = Append(@, [kind |-> "rejected", moduleName |-> moduleName,
                                 methodName |-> methodName])]

\* method() threw: the async function rejects
MethodThrew(S, moduleName, methodName) ==
    [S EXCEPT !.log = Append(@, [kind |-> "rejected", moduleName |-> moduleName,
                                 methodName |-> methodName])]

\* the missing method logged and its item dropped, so that the phase goes on
MissingMethodSkips(S, p, nextKey, moduleName, methodName) ==
    DoneCallback([S EXCEPT !.log = Append(@, [kind |-> "missing",
                                              moduleName |-> moduleName,
                                              methodName |-> methodName])],
                 p, nextKey, NoTimer)

\* if (!instanceMethod) { log(...); return; }
MissingMethod(S, p, nextKey, moduleName, methodName) ==
    [S EXCEPT !.log = Append(@, [kind |-> "missing", moduleName |-> moduleName,
                                 methodName |-> methodName])]

\* LoaderService.processQueueItem, up to its await
ProcessQueueItem(S0, p) == Result({
    IF Len(S.queue[p]) = 0 THEN S
    ELSE
      LET nextItem == Earliest(S.queue[p]).value
          nextKey == Earliest(S.queue[p]).key
          parts == Split(nextKey, "_")
          moduleName == Nth(parts, 1)
          methodName == Nth(parts, 2)
      IN IF ~Resolves(nextItem.target)
         THEN ResolveThrew(S, moduleName, methodName)
         ELSE IF ~HasMethod(nextItem.target, nextItem.methodName)
         THEN MissingMethod(S, p, nextKey, moduleName, methodName)
         ELSE
           LET S1 == SetTimeout(S, "watchdog", nextItem.doneCheckTimeout,
                                moduleName, methodName)
               S2 == [S1 EXCEPT !.inv = Append(@,
                          [phase |-> p, key |-> nextKey, timer |-> S.nextTimerId,
                           done |-> 0, returned |-> FALSE, item |-> nextItem])]
               S3 == IF CallsDoneSync(nextItem.target, nextItem.methodName)
                     THEN CallDone(S2, Len(S2.inv))
                     ELSE S2
           IN IF Throws(nextItem.target, nextItem.methodName)
              THEN MethodThrew(S3, moduleName, methodName)
              ELSE S3
    : S \in {S0}})

\* processQueue doing nothing for an empty Map
ProcessQueueNoDrain(S, p) ==
    IF Len(S.queue[p]) = 0
    THEN S
    ELSE LET S1 == IF S.count[p].stopped THEN S
                   ELSE [S EXCEPT !.count[p].filters = @ + 1]
         IN ProcessQueueItem(S1, p)

\* LoaderService.processQueue
ProcessQueue(S0, p) == Result({
    IF Len(S.queue[p]) = 0
    THEN DoneCallback(S, p, NoKey, NoTimer)
    ELSE LET S1 == IF S.count[p].stopped THEN S
                   ELSE [S EXCEPT !.count[p].filters = @ + 1]
         IN ProcessQueueItem(S1, p)
    : S \in {[S0 EXCEPT !.hist = Append(@, Event("start", p))]}})

\* LoaderService.add
Add(q, queueItem) ==
    [q EXCEPT ![queueItem.type] = MapSet(@, Identifier(queueItem), queueItem)]

RECURSIVE AddAll(_, _)
AddAll(q, items) ==
    IF items = <<>> THEN q ELSE AddAll(Add(q, Head(items)), Tail(items))

\* LoaderService.resolveMetaDataAndAdd
ResolveMetaDataAndAdd(S) == [S EXCEPT !.queue = AddAll(@, meta)]

\* the four subscriptions bootstrap makes through takeLast(1)
SubscribeCounts(S) ==
    [S EXCEPT !.count = [p \in PhaseNames |->
        IF @[p].stopped THEN @[p] ELSE [@[p] EXCEPT !.takeLast = TRUE]]]

RECURSIVE NextAll(_, _)
NextAll(S, ps) ==
    IF ps = <<>> THEN S
    ELSE NextAll(CountNext(S, Head(ps), Len(S.queue[Head(ps)])), Tail(ps))

\* LoaderService.setupQueueCounts
SetupQueueCounts(S) ==
    NextAll(S, <<"frameworkBeforeBoot", "before", "after", "frameworkAfterBoot">>)

\* startLoading without the delay: the first phase is processed by bootstrap
StartLoadingAtOnce(S) == ProcessQueue(S, "frameworkBeforeBoot")

\* LoaderService.startLoading
StartLoading(S) == SetTimeout(S, "warmup", WarmUpDelay, <<>>, <<>>)

\* a timeout that gives up on its item: the first entry is dropped and the
\* phase goes on
SetupDoneTimeoutSkips(S, t) ==
    LET S1 == [S EXCEPT !.timers = @ \ {t},
                        !.log = Append(@, [kind |-> "timeout",
                                           moduleName |-> t.moduleName,
                                           methodName |-> t.methodName])]
        p == CHOOSE q \in PhaseNames :
                 \/ (S.queue[q] # <<>> /\ ~S.count[q].stopped)
                 \/ \A r \in PhaseNames : S.queue[r] = <<>> \/ S.count[r].stopped
    IN IF S.queue[p] # <<>> /\ ~S.count[p].stopped
       THEN DoneCallback(S1, p, S.queue[p][1].key, NoTimer)
       ELSE S1

\* LoaderService.setupDoneTimeout, run by the host when the timeout is due
SetupDoneTimeout(S, t) ==
    LET S1 == [S EXCEPT !.timers = @ \ {t},
                        !.log = Append(@, [kind |-> "timeout",
                                           moduleName |-> t.moduleName,
                                           methodName |-> t.methodName])]
    IN ClearInterval(S1, t.id)

\* a subject that takes observers after complete()
SubscribeStopped(subject, callback) ==
    [subject EXCEPT !.observers = Append(@, callback)]

\* Subject.subscribe on finishSubject$ behind filter(isFinished)
Subscribe(subject, callback) ==
    IF subject.stopped THEN subject
    ELSE [subject EXCEPT !.observers = Append(@, callback)]

\* next(true) sent twice
EmitTwice(subject, calls) ==
    IF subject.stopped THEN calls
    ELSE [c \in DOMAIN calls |->
            calls[c] + 2 * Cardinality({i \in 1..Len(subject.observers) :
                                            subject.observers[i] = c})]

\* finishSubject$.next(true): every observer's callback is called once
Emit(subject, calls) ==
    IF subject.stopped THEN calls
    ELSE [c \in DOMAIN calls |->
            calls[c] + Cardinality({i \in 1..Len(subject.observers) :
                                        subject.observers[i] = c})]

\* Subject.complete
Complete(subject) ==
    IF subject.stopped THEN subject
    ELSE [subject EXCEPT !.stopped = TRUE, !.observers = <<>>]

(***************************************************************************)
(* The operations.                                                         *)
(***************************************************************************)
InitLoader ==
    /\ queue = NewQueue
    /\ count = NewCounts
    /\ startingSubject = [stopped |-> FALSE, takeLast |-> FALSE, buffer |-> <<>>]
    /\ finishSubject = [stopped |-> FALSE, observers |-> <<>>]
    /\ isBootstrapped = FALSE
    /\ ticks = <<>>
    /\ timers = {}
    /\ nextTimerId = 1
    /\ hist = <<>>
    /\ inv = <<>>
    /\ log = <<>>
    /\ registered = [c \in Callbacks |-> "no"]
    /\ called = [c \in Callbacks |-> 0]
    /\ rootResolved = "no"
    /\ rebooted = FALSE
    /\ dups = 0
    /\ hostClearsAny \in BOOLEAN

\* a new BaseEventService, and a metadata store nothing has been defined in
InitService ==
    /\ events = <<>>
    /\ handlers = <<>>
    /\ trace = <<>>
    /\ outcome = "none"
    /\ commands = [defined |-> FALSE, list |-> <<>>]  \* undefined
    /\ decorated = <<>>

Init ==
    /\ meta = <<>>
    /\ InitLoader
    /\ InitService

\* @Autoload(type, options) on a class, ahead of bootstrap: one more descriptor
\* in the metadata
Autoload(item) ==
    /\ ~isBootstrapped
    /\ Len(meta) < MaxReg
    /\ meta' = Append(meta, item)
    /\ UNCHANGED <<queue, count, startingSubject, finishSubject, isBootstrapped,
                   ticks, timers, nextTimerId, hist, inv, log, registered,
                   called, rootResolved, rebooted, dups, hostClearsAny, serviceVars>>

\* the body of bootstrap after its guard
BootstrapRun ==
    /\ Commit(StartLoading(SetupQueueCounts(SubscribeCounts(ResolveMetaDataAndAdd(Cur)))))
    /\ startingSubject' = IF startingSubject.stopped THEN startingSubject
                          ELSE [startingSubject EXCEPT !.takeLast = TRUE]
    /\ isBootstrapped' = TRUE

\* bootstrap without the isBootstrapped guard
BootstrapUnguarded ==
    /\ rebooted' = (rebooted \/ isBootstrapped)
    /\ BootstrapRun
    /\ UNCHANGED <<meta, finishSubject, registered, called, rootResolved, dups,
                   hostClearsAny, serviceVars>>

\* LoaderService.bootstrap(target); the target is only handed to the container
Bootstrap ==
    /\ rebooted' = (rebooted \/ isBootstrapped)
    /\ IF isBootstrapped
       THEN UNCHANGED <<queue, count, ticks, timers, nextTimerId, hist, inv, log,
                        startingSubject, isBootstrapped>>
       ELSE BootstrapRun
    /\ UNCHANGED <<meta, finishSubject, registered, called, rootResolved, dups,
                   hostClearsAny, serviceVars>>

\* LoaderService.done
Done(callback) ==
    /\ registered[callback] = "no"
    /\ finishSubject' = Subscribe(finishSubject, callback)
    /\ registered' = [registered EXCEPT ![callback] =
                         IF finishSubject.stopped THEN "after" ELSE "before"]
    /\ UNCHANGED <<meta, queue, count, startingSubject, isBootstrapped, 
                   ticks, timers, nextTimerId, hist, inv, log, called, rootResolved,
                   rebooted, dups, hostClearsAny, serviceVars>>

\* the warm-up timeout of startLoading is due: next(true), complete()
WarmUp ==
    \E t \in timers :
        /\ t.kind = "warmup"
        /\ timers' = timers \ {t}
        /\ startingSubject' = [startingSubject EXCEPT !.stopped = TRUE,
                                   !.buffer = IF startingSubject.stopped \/ ~startingSubject.takeLast
                                              THEN @ ELSE <<TRUE>>]
        /\ ticks' = IF ~startingSubject.stopped /\ startingSubject.takeLast
                    THEN Append(ticks, Thunk("processQueue", "frameworkBeforeBoot"))
                    ELSE ticks
        /\ UNCHANGED <<meta, queue, count, finishSubject, isBootstrapped, 
                       nextTimerId, hist, inv, log, registered, called, rootResolved,
                       rebooted, dups, hostClearsAny, serviceVars>>

\* the timeout armed for a running item is due
Watchdog ==
    \E t \in timers :
        /\ t.kind = "watchdog"
        /\ Commit(SetupDoneTimeout(Cur, t))
        /\ UNCHANGED <<meta, startingSubject, finishSubject, isBootstrapped,
                       registered, called, rootResolved,
                       rebooted, dups, hostClearsAny, serviceVars>>

\* the host runs the oldest nextTick callback: processQueue of a phase
TickProcessQueue ==
    /\ ticks # <<>>
    /\ Head(ticks).fn = "processQueue"
    /\ Commit(ProcessQueue([Cur EXCEPT !.ticks = Tail(@)], Head(ticks).phase))
    /\ UNCHANGED <<meta, startingSubject, finishSubject, isBootstrapped, 
                   registered, called, rootResolved, rebooted, dups,
                   hostClearsAny, serviceVars>>

\* ... or finishUpBooting(target) followed by container.resolve(target), which
\* returns (and runs the afterResolution callback) or throws
TickFinishUpBooting ==
    /\ ticks # <<>>
    /\ Head(ticks).fn = "finishUpBooting"
    /\ \E ok \in BOOLEAN :
          /\ rootResolved' = IF ok THEN "yes" ELSE "threw"
          /\ ticks' = IF ok
                      THEN Append(Tail(ticks), Thunk("finish", NoPhase))
                      ELSE Tail(ticks)
    /\ UNCHANGED <<meta, queue, count, startingSubject, finishSubject,
                   isBootstrapped, timers, nextTimerId, hist, inv, log,
                   registered, called, rebooted, dups, hostClearsAny, serviceVars>>

\* ... or the callback of afterResolution: next(true), complete()
TickFinish ==
    /\ ticks # <<>>
    /\ Head(ticks).fn = "finish"
    /\ called' = Emit(finishSubject, called)
    /\ finishSubject' = Complete(finishSubject)
    /\ ticks' = Tail(ticks)
    /\ UNCHANGED <<meta, queue, count, startingSubject, isBootstrapped, 
                   timers, nextTimerId, hist, inv, log, registered, rootResolved,
                   rebooted, dups, hostClearsAny, serviceVars>>

\* a running method calls its done callback for the first time
ItemDone(i) ==
    /\ inv[i].done = 0
    /\ ~Throws(inv[i].item.target, inv[i].item.methodName)
    /\ Commit(CallDone(Cur, i))
    /\ UNCHANGED <<meta, startingSubject, finishSubject, isBootstrapped, 
                   registered, called, rootResolved, rebooted, dups,
                   hostClearsAny, serviceVars>>

\* a method calls a done callback it has called before
ItemDoneAgain(i) ==
    /\ inv[i].done > 0
    /\ dups < MaxDup
    /\ dups' = dups + 1
    /\ Commit(CallDone(Cur, i))
    /\ UNCHANGED <<meta, startingSubject, finishSubject, isBootstrapped, 
                   registered, called, rootResolved, rebooted,
                   hostClearsAny, serviceVars>>

Next ==
    \/ \E item \in Universe : Autoload(item)
    \/ Bootstrap
    \/ \E callback \in Callbacks : Done(callback)
    \/ WarmUp
    \/ Watchdog
    \/ TickProcessQueue
    \/ TickFinishUpBooting
    \/ TickFinish
    \/ \E i \in 1..Len(inv) : ItemDone(i)
    \/ \E i \in 1..Len(inv) : ItemDoneAgain(i)

Spec == Init /\ [][Next]_vars

\* a late registration put into the Map of its phase
AutoloadLateAdds(item) ==
    /\ isBootstrapped
    /\ Len(meta) < MaxReg
    /\ meta' = Append(meta, item)
    /\ queue' = Add(queue, item)
    /\ UNCHANGED <<count, startingSubject, finishSubject, isBootstrapped,
                   ticks, timers, nextTimerId, hist, inv, log, registered,
                   called, rootResolved, rebooted, dups, hostClearsAny, serviceVars>>

\* @Autoload used after bootstrap has read the metadata
AutoloadLate(item) ==
    /\ isBootstrapped
    /\ Len(meta) < MaxReg
    /\ meta' = Append(meta, item)
    /\ UNCHANGED <<queue, count, startingSubject, finishSubject, isBootstrapped,
                   ticks, timers, nextTimerId, hist, inv, log, registered,
                   called, rootResolved, rebooted, dups, hostClearsAny, serviceVars>>

\* the return of a method taken for its completion
ItemReturnsAdvancing(i) ==
    /\ ~inv[i].returned
    /\ ~Throws(inv[i].item.target, inv[i].item.methodName)
    /\ Commit(DoneCallback([Cur EXCEPT !.inv[i].returned = TRUE],
                           inv[i].phase, inv[i].key, inv[i].timer))
    /\ UNCHANGED <<meta, startingSubject, finishSubject, isBootstrapped,
                   registered, called, rootResolved, rebooted, dups,
                   hostClearsAny, serviceVars>>

\* a method that was called returns, or the promise it returned settles: the
\* await of processQueueItem is over and the function ends
ItemReturns(i) ==
    /\ ~inv[i].returned
    /\ ~Throws(inv[i].item.target, inv[i].item.methodName)
    /\ inv' = [inv EXCEPT ![i].returned = TRUE]
    /\ UNCHANGED <<meta, queue, count, startingSubject, finishSubject,
                   isBootstrapped, ticks, timers, nextTimerId, hist, log, registered,
                   called, rootResolved, rebooted, dups, hostClearsAny, serviceVars>>

\* the loader with failing items, late registrations and returning methods
NextWide ==
    \/ Next
    \/ \E item \in Failing \cup Reregistered : Autoload(item)
    \/ \E item \in Universe \cup Failing : AutoloadLate(item)
    \/ \E i \in 1..Len(inv) : ItemReturns(i)

SpecWide == Init /\ [][NextWide]_vars

\* one run of the loader on a metadata list that is complete before bootstrap
InitLists ==
    /\ meta \in Lists
    /\ InitLoader
    /\ InitService

NextLists ==
    \/ Bootstrap
    \/ WarmUp
    \/ Watchdog
    \/ TickProcessQueue
    \/ TickFinishUpBooting
    \/ TickFinish
    \/ \E i \in 1..Len(inv) : ItemDone(i)

SpecLists == InitLists /\ [][NextLists]_vars

(***************************************************************************)
(* The event service (BaseEventService) and the @Cmd decorator.            *)
(***************************************************************************)

\* BaseEventService.handlerTypes
handlerTypes ==
    <<"syncedMetaChange", "streamSyncedMetaChange", "gameEntityCreate",
      "gameEntityDestroy", "entityEnterColshape", "entityLeaveColshape">>

\* BaseEventService.availableDecoratorListenerTypes
availableDecoratorListenerTypes ==
    {"on", "once", "onGui", "onServer", "onClient", "onceServer", "onceClient"}

\* this[type] of a BaseEventService: the methods the class has
InternalMethods == {"on", "once", "off", "emit"}

\* what the decorators hand to the service: listener and handler types the
\* service knows and one it does not, a class that is registered in the
\* container under its name and one that is not, a method the instances have
\* and one they lack
EventTypes == {"on", "once", "onServer", "emit"}
EntityTypes == {"gameEntityCreate", "entityLeaveColshape", "on"}
TargetNames == {"A", "U"}
MethodNames == {"m", "x"}

\* container.resolveAll(targetName): the instances, or none where it throws
IsRegistered(targetName) == targetName # "U"
ResolveAll(targetName) == IF IsRegistered(targetName) THEN <<1>> ELSE <<>>

\* instance[methodName]
InstanceHas(targetName, methodName) == methodName # "x"

\* new EventModel().cast({type, eventName, targetName, methodName})
EventModel(type, eventName, targetName, methodName) ==
    [type |-> type, eventName |-> eventName, targetName |-> targetName,
     methodName |-> methodName]

\* one thing autoStart did: a line logged, a listener given to the host
\* (eventOn, eventOnce), a rejection of the callback of instances.forEach,
\* listenHandlerForType called, done called
Did(op, type, eventName, targetName, methodName) ==
    [op |-> op, type |-> type, eventName |-> eventName,
     targetName |-> targetName, methodName |-> methodName]
Logged(message) == Did("log", "", message, "", "")

\* BaseEventService.add(type, targetName, methodName, options)
EventServiceAdd(type, targetName, methodName, options) ==
    /\ Len(events) < MaxEvents
    /\ events' = IF type \in availableDecoratorListenerTypes
                 THEN Append(events,
                             EventModel(type, options.name, targetName, methodName))
                 ELSE events
    /\ UNCHANGED <<loaderVars, handlers, trace, outcome, commands, decorated>>

\* BaseEventService.addHandlerMethods(type, targetName, methodName, options)
AddHandlerMethods(type, targetName, methodName, options) ==
    /\ Len(handlers) < MaxHandlers
    /\ handlers' = IF \E n \in 1..Len(handlerTypes) : handlerTypes[n] = type
                   THEN Append(handlers,
                               EventModel(type, options.name, targetName, methodName))
                   ELSE handlers
    /\ UNCHANGED <<loaderVars, events, trace, outcome, commands, decorated>>

\* on(eventName, listener) and once(eventName, listener) of the service
InternalCall(type) == IF type = "once" THEN "eventOnce" ELSE "eventOn"

\* the callback of instances.forEach in startBaseMethods, for one instance: an
\* async function, so what it throws is a rejection nobody awaits
StartInstance(T, event) ==
    IF ~InstanceHas(event.targetName, event.methodName) THEN T
    ELSE IF event.type \notin InternalMethods
    THEN [T EXCEPT !.trace = Append(@, Did("rejected", event.type, event.eventName,
                                           event.targetName, event.methodName))]
    ELSE [T EXCEPT !.trace = Append(@, Did(InternalCall(event.type), event.type,
                                           event.eventName, event.targetName,
                                           event.methodName))]

RECURSIVE StartInstances(_, _, _)
StartInstances(T, event, instances) ==
    IF instances = <<>> THEN T
    ELSE StartInstances(StartInstance(T, event), event, Tail(instances))

\* BaseEventService.startBaseMethods(), from the k-th event on; resolveAll
\* throws out of the forEach for a name the container does not know
RECURSIVE StartBaseMethodsFrom(_, _)
StartBaseMethodsFrom(T, k) ==
    IF k > Len(events) THEN T
    ELSE IF ~IsRegistered(events[k].targetName) THEN [T EXCEPT !.threw = TRUE]
    ELSE StartBaseMethodsFrom(
             StartInstances(T, events[k], ResolveAll(events[k].targetName)), k + 1)

StartBaseMethods(T) == StartBaseMethodsFrom(T, 1)

\* BaseEventService.getHandler(type)
GetHandler(type) == SelectSeq(handlers, LAMBDA handle : handle.type = type)

\* BaseEventService.listenHandlerForType(type, handlers): empty in this class
ListenHandlerForType(T, type) ==
    [T EXCEPT !.trace = Append(@, Did("listenHandlerForType", type, "", "", ""))]

\* BaseEventService.startEntityHandle(), from the n-th handler type on
RECURSIVE StartEntityHandleFrom(_, _)
StartEntityHandleFrom(T, n) ==
    IF n > Len(handlerTypes) THEN T
    ELSE StartEntityHandleFrom(
             IF Len(GetHandler(handlerTypes[n])) > 0
             THEN ListenHandlerForType(T, handlerTypes[n]) ELSE T,
             n + 1)

StartEntityHandle(T) == StartEntityHandleFrom(T, 1)

Say(T, message) == [T EXCEPT !.trace = Append(@, Logged(message))]

\* BaseEventService.autoStart(done), up to its return or its throw
AutoStartBody(T0) ==
    LET T1 == IF Len(events) > 0
              THEN LET S == StartBaseMethods(Say(T0, "Starting EventService Decorator"))
                   IN IF S.threw THEN S ELSE Say(S, "Started EventService Decorator")
              ELSE T0
        T2 == IF T1.threw THEN T1
              ELSE IF Len(handlers) > 0
              THEN Say(StartEntityHandle(Say(T1, "Starting EntityEvent Handle Decorator")),
                       "Started EntityEvent Handle Decorator")
              ELSE T1
    IN IF T2.threw THEN T2
       ELSE [T2 EXCEPT !.trace = Append(@, Did("done", "", "", "", ""))]

\* the loader calls autoStart as the method of a queue item
AutoStart ==
    /\ outcome = "none"
    /\ \E T \in {AutoStartBody([trace |-> trace, threw |-> FALSE])} :
           /\ trace' = T.trace
           /\ outcome' = IF T.threw THEN "threw" ELSE "returned"
    /\ UNCHANGED <<loaderVars, events, handlers, commands, decorated>>

NextEvents ==
    \/ \E type \in EventTypes, targetName \in TargetNames, methodName \in MethodNames :
           EventServiceAdd(type, targetName, methodName, [name |-> "e"])
    \/ \E type \in EntityTypes :
           AddHandlerMethods(type, "A", "m", [name |-> "e"])
    \/ AutoStart

SpecEvents == Init /\ [][NextEvents]_vars

\* the value defined under a metadata key: a list, or undefined where nothing
\* has been defined
Undefined == [defined |-> FALSE, list |-> <<>>]
Defined(list) == [defined |-> TRUE, list |-> list]

\* getAtlasMetaData(key, target): the list defined under the key, or a new one
GetAtlasMetaData(value) == IF value.defined THEN value.list ELSE <<>>

\* setEventServiceReflectMetaData(key, data)
SetEventServiceReflectMetaData(value, data) ==
    Defined(Append(GetAtlasMetaData(value), data))

\* name || propertyKey
CommandName(name, propertyKey) == IF name = "" THEN propertyKey ELSE name

\* @Cmd(name) on method propertyKey of class targetName.  getMetadata of
\* @abraham/reflection gives what is defined under the key and no default:
\* events.find throws a TypeError where that is undefined.
Cmd(name, targetName, propertyKey) ==
    LET commandName == CommandName(name, propertyKey)
        data == EventModel("consoleCommand", commandName, targetName, propertyKey)
        found == commands
        alreadyExists ==
            \E n \in 1..Len(found.list) : found.list[n].eventName = commandName
    IN /\ Len(decorated) < MaxCmd
       /\ decorated' = Append(decorated, [data |-> data,
                                          threw |-> ~found.defined])
       /\ commands' = IF ~found.defined \/ alreadyExists THEN commands
                      ELSE SetEventServiceReflectMetaData(commands, data)
       /\ UNCHANGED <<loaderVars, events, handlers, trace, outcome>>

CommandNames == {"", "c", "d"}

NextCmd ==
    \E name \in CommandNames, targetName \in {"A", "B"}, propertyKey \in MethodNames :
        Cmd(name, targetName, propertyKey)

SpecCmd == Init /\ [][NextCmd]_vars

\* the loader on a host whose clearInterval stops timeouts too
InitClearingHost == Init /\ hostClearsAny
SpecClearingHost == InitClearingHost /\ [][Next]_vars

\* the host runs every timeout and nextTick callback that is due, and every
\* method that was called calls its done callback
FairSpec ==
    /\ Init
    /\ [][Next]_vars
    /\ WF_vars(WarmUp)
    /\ WF_vars(TickProcessQueue)
    /\ WF_vars(TickFinishUpBooting)
    /\ WF_vars(TickFinish)
    /\ WF_vars(\E i \in 1..Len(inv) : ItemDone(i))

(***************************************************************************)
(* Notions the properties are stated in.                                   *)
(***************************************************************************)
\* the keys registered in phase p, as a set
RegisteredKeys(p) ==
    {Identifier(meta[i]) : i \in {j \in 1..Len(meta) : meta[j].type = p}}

\* position i of the metadata is the first registration of its key in its phase
FirstOfKey(i) ==
    \A j \in 1..(i - 1) :
        ~(meta[j].type = meta[i].type /\ Identifier(meta[j]) = Identifier(meta[i]))

\* the keys registered in phase p, in the order of their first registration
RegistrationOrder(p) ==
    LET positions == SelectSeq([i \in 1..Len(meta) |-> i],
                               LAMBDA i : meta[i].type = p /\ FirstOfKey(i))
    IN [n \in 1..Len(positions) |-> Identifier(meta[positions[n]])]

\* the keys of the methods called in phase p, in the order of the calls
CalledKeys(p) ==
    LET calls == SelectSeq(inv, LAMBDA c : c.phase = p)
    IN [n \in 1..Len(calls) |-> calls[n].key]

IsPrefix(s, t) == Len(s) <= Len(t) /\ \A n \in 1..Len(s) : s[n] = t[n]

Earlier(p, q) == PhaseIndex(p) < PhaseIndex(q)

\* calls whose done callback has not been called
InFlight == {i \in 1..Len(inv) : inv[i].done = 0}

\* the timeouts armed for items and neither due nor cleared yet
Watchdogs == {t \in timers : t.kind = "watchdog"}

\* C1: no method of phase q is called before every item registered in an
\* earlier phase p has had its done callback called and has left p's queue.
C1_PhasesInOrder ==
    \A i \in 1..Len(inv) : \A p \in PhaseNames :
        Earlier(p, inv[i].phase) =>
            /\ queue[p] = <<>>
            /\ \A k \in RegisteredKeys(p) :
                   \E j \in 1..(i - 1) :
                       inv[j].phase = p /\ inv[j].key = k /\ inv[j].done > 0

\* an item of "before" is running after an item of "frameworkBeforeBoot" ran
C1_Witness ==
    /\ RegisteredKeys("frameworkBeforeBoot") # {}
    /\ \E i \in 1..Len(inv) : inv[i].phase = "before"

\* C2: as long as no done callback is called twice, the methods of a phase are
\* called in the order of registration, each once, and a method is called only
\* after the done callback of the call before it.
C2_RegistrationOrder ==
    dups = 0 =>
        /\ \A p \in PhaseNames : IsPrefix(CalledKeys(p), RegistrationOrder(p))
        /\ \A i \in 1..(Len(inv) - 1) : inv[i].done > 0

\* two items of one phase have run, one after the other
C2_Witness ==
    /\ dups = 0
    /\ Len(inv) >= 2
    /\ inv[1].phase = inv[2].phase
    /\ inv[1].key # inv[2].key
    /\ inv[1].done = 1 /\ inv[2].done = 1

\* C3: at most one call of an item's method is unfinished and at most one
\* timeout armed for an item is pending.
C3_OneAtATime ==
    /\ Cardinality(InFlight) <= 1
    /\ Cardinality(Watchdogs) <= 1

\* C4: a callback given to done before the finish subject emits is called
\* exactly once when it emits, and no callback is called before the last
\* phase has drained and the root target has been resolved.
C4_FinishOnce ==
    \A c \in Callbacks :
        /\ called[c] <= 1
        /\ called[c] > 0 =>
               /\ registered[c] = "before"
               /\ rootResolved = "yes"
               /\ \A p \in PhaseNames : queue[p] = <<>> /\ count[p].stopped
        /\ (finishSubject.stopped /\ registered[c] = "before") => called[c] = 1

\* the finish subject has emitted to a callback registered before
C4_Witness ==
    /\ finishSubject.stopped
    /\ \E c \in Callbacks : registered[c] = "before" /\ called[c] = 1
    /\ Len(inv) >= 1

\* C5: a callback given to done after the finish subject has emitted is never
\* called, and giving it leaves the subject as it was.
C5_LateCallbackIgnored ==
    \A c \in Callbacks :
        registered[c] = "after" =>
            /\ called[c] = 0
            /\ finishSubject.stopped
            /\ finishSubject.observers = <<>>

\* a callback has been given to done after the finish subject emitted
C5_Witness ==
    \E c \in Callbacks : registered[c] = "after"

\* C6: a call of bootstrap on a bootstrapped loader changes nothing: not the
\* queues, the subjects, the timers, the nextTick callbacks, nor anything else.
C6_BootstrapIdempotent ==
    [][(isBootstrapped /\ ~rebooted /\ rebooted') =>
           UNCHANGED <<meta, queue, count, startingSubject, finishSubject,
                       isBootstrapped, ticks, timers, nextTimerId, hist, inv, log,
                       registered, called, rootResolved, dups, hostClearsAny, serviceVars>>]_vars

\* bootstrap has been called again after items had started to run
C6_Witness ==
    /\ rebooted
    /\ Len(inv) >= 1
    /\ \E p \in PhaseNames : queue[p] # <<>>

\* every registered descriptor names a method its class has
AllMethodsExist ==
    \A i \in 1..Len(meta) : HasMethod(meta[i].target, meta[i].methodName)

AllDrained == \A p \in PhaseNames : queue[p] = <<>> /\ count[p].stopped

\* the finish subject has emitted to every callback that done() had subscribed
Finished ==
    /\ finishSubject.stopped
    /\ \A c \in Callbacks : registered[c] = "before" => called[c] = 1

\* C7 as stated: after bootstrap, when every registered method exists, all
\* four phases drain and the finish subject emits to the callbacks of done().
C7_AlwaysFinishes ==
    (isBootstrapped /\ AllMethodsExist) ~> (AllDrained /\ Finished)

\* C7: after bootstrap, when every registered method exists, all four phases
\* drain, and then either the container throws resolving the root target or the
\* finish subject emits to every callback done() had subscribed before.
C7_FinishesIfRootResolves ==
    /\ (isBootstrapped /\ AllMethodsExist) ~> AllDrained
    /\ (isBootstrapped /\ AllMethodsExist) ~>
           (rootResolved = "threw" \/ (AllDrained /\ Finished))

\* a run with items in some phases and none in others has finished and called
\* a callback of done()
C7_Witness ==
    /\ AllMethodsExist
    /\ Len(meta) = MaxReg
    /\ \E p \in PhaseNames : RegisteredKeys(p) = {}
    /\ \A i \in 1..Len(inv) : inv[i].done > 0
    /\ AllDrained
    /\ Finished
    /\ \E c \in Callbacks : called[c] = 1

\* the callback at the head of the nextTick queue is processQueue of a phase
\* whose Map is empty, and this step runs it
RunsEmptyPhase(p) ==
    /\ ticks # <<>>
    /\ Head(ticks) = Thunk("processQueue", p)
    /\ queue[p] = <<>>
    /\ ticks' # ticks

\* C8: processQueue of a phase with an empty Map calls no method and arms no
\* timeout, completes the phase's count at once, and leaves processQueue of
\* the next phase as the one callback for the next tick.
C8_EmptyPhase ==
    [][\A p \in PhaseNames :
          RunsEmptyPhase(p) =>
              /\ inv' = inv
              /\ timers' = timers
              /\ log' = log
              /\ ~count[p].stopped /\ count'[p].stopped
              /\ PhaseIndex(p) < Len(PhaseOrder) =>
                     ticks' = Tail(ticks)
                                \o <<Thunk("processQueue", PhaseOrder[PhaseIndex(p) + 1])>>]_vars

\* the empty phase "after" has drained and the phase after it is running
C8_Witness ==
    /\ RegisteredKeys("after") = {}
    /\ count["after"].stopped
    /\ \E i \in 1..Len(inv) : inv[i].phase = "frameworkAfterBoot"

\* this step is the host running the timeout t armed for an item
WatchdogFires(t) ==
    /\ t \in Watchdogs
    /\ t \notin timers'
    /\ Len(log') = Len(log) + 1
    /\ log'[Len(log')].kind = "timeout"

\* this step is the first call of the done callback of call i, after the
\* timeout armed for the call has fired
LateDone(i) ==
    /\ inv[i].done = 0
    /\ Len(inv') >= i /\ inv'[i].done = 1
    /\ \A t \in timers : t.id # inv[i].timer

\* what the subscriber on a phase's count is to schedule when it completes
AfterPhase(p) ==
    IF PhaseIndex(p) < Len(PhaseOrder)
    THEN Thunk("processQueue", PhaseOrder[PhaseIndex(p) + 1])
    ELSE Thunk("finishUpBooting", NoPhase)

\* the entries of phase p other than key, in their order
Others(p, key) == SelectSeq(queue[p], LAMBDA e : e.key # key)

\* C9: the timeout of an item falling due only writes the warning: the item
\* stays queued, nothing is called, scheduled or armed; and a done callback
\* called after it removes the item and goes on to the next item, or completes
\* the phase and schedules what follows it.
C9_WatchdogOnlyWarns ==
    [][/\ \A t \in timers :
              WatchdogFires(t) =>
                  /\ timers' = timers \ {t}
                  /\ UNCHANGED <<meta, queue, count, startingSubject, finishSubject,
                                 isBootstrapped, ticks, nextTimerId, hist, inv, registered,
                                 called, rootResolved, rebooted, dups>>
       /\ \A i \in 1..Len(inv) :
              (LateDone(i) /\ ~count[inv[i].phase].stopped) =>
                  LET p == inv[i].phase
                      rest == Others(p, inv[i].key)
                  IN /\ ~MapHas(queue'[p], inv[i].key)
                     /\ rest = <<>> =>
                            /\ count'[p].stopped
                            /\ ticks' = Append(ticks, AfterPhase(p))
                     /\ (rest # <<>> /\ HasMethod(rest[1].value.target,
                                                  rest[1].value.methodName)) =>
                            /\ Len(inv') > Len(inv)
                            /\ inv'[Len(inv) + 1].phase = p
                            /\ inv'[Len(inv) + 1].key = rest[1].key]_vars

\* an item's timeout fired, its done callback was called later, and the next
\* item of the phase was called
C9_Witness ==
    /\ hostClearsAny
    /\ dups = 0
    /\ \E i \in 1..(Len(inv) - 1) :
           /\ inv[i].done = 1
           /\ inv[i + 1].phase = inv[i].phase
           /\ \E n \in 1..Len(log) :
                  /\ log[n].kind = "timeout"
                  /\ log[n].moduleName \o <<"_">> \o log[n].methodName = inv[i].key

MissingLogged == \E n \in 1..Len(log) : log[n].kind = "missing"

\* phase p is stuck at a first entry whose method does not exist
StalledAt(p) ==
    /\ queue[p] # <<>>
    /\ ~HasMethod(queue[p][1].value.target, queue[p][1].value.methodName)
    /\ ~count[p].stopped
    /\ \A i \in 1..Len(inv) : ~(inv[i].phase = p /\ inv[i].key = queue[p][1].key)
    /\ \A q \in PhaseNames :
           Earlier(p, q) =>
               /\ ~count[q].stopped
               /\ \A i \in 1..Len(inv) : inv[i].phase # q

\* C10: once a missing method has been logged, its item is still the first of
\* its phase, it was never called and the phase is not complete; no method is
\* called from then on, no Map changes, no timeout is armed, no later phase
\* starts and the finish subject never emits.
C10_MissingMethodStalls ==
    /\ [](MissingLogged =>
              /\ \E p \in PhaseNames : StalledAt(p)
              /\ ~finishSubject.stopped
              /\ rootResolved = "no"
              /\ \A c \in Callbacks : called[c] = 0)
    /\ [][MissingLogged =>
              /\ Len(inv') = Len(inv)
              /\ queue' = queue
              /\ timers' \subseteq timers]_vars

\* a phase is stuck at a missing method with another item behind it
C10_Witness ==
    /\ MissingLogged
    /\ \E p \in PhaseNames :
           /\ StalledAt(p)
           /\ \/ Len(queue[p]) >= 2
              \/ \E q \in PhaseNames : Earlier(p, q) /\ queue[q] # <<>>

\* no done callback bound for a call of this key in this phase has been called
NeverDone(p, key) ==
    \A j \in 1..Len(inv) : (inv[j].phase = p /\ inv[j].key = key) => inv[j].done = 0

\* the phase has gone on from an entry that is gone: it is complete, or its
\* first entry has been taken up
Advanced(p) ==
    IF queue[p] = <<>>
    THEN count[p].stopped
    ELSE \/ \E j \in 1..Len(inv) : inv[j].phase = p /\ inv[j].key = queue[p][1].key
         \/ \E n \in 1..Len(log) :
                /\ log[n].kind \in {"missing", "rejected"}
                /\ log[n].moduleName \o <<"_">> \o log[n].methodName = queue[p][1].key

\* C11: while no done callback of an item has been called the item is the
\* first entry of its phase, the phase is not complete and nothing is called
\* after it, whether or not its method has returned; the return changes
\* nothing. Once a done callback was called, before the method returned or
\* later, the entry is gone and the phase has gone on.
C11_OnlyDoneAdvances ==
    /\ [](\A i \in 1..Len(inv) :
              LET p == inv[i].phase
                  key == inv[i].key
              IN /\ NeverDone(p, key) =>
                      /\ queue[p] # <<>> /\ queue[p][1].key = key
                      /\ ~count[p].stopped
                      /\ \A j \in i..Len(inv) : inv[j].phase = p /\ inv[j].key = key
                 /\ inv[i].done > 0 =>
                      /\ ~MapHas(queue[p], key)
                      /\ Advanced(p))
    /\ [][\A i \in 1..Len(inv) :
              (~inv[i].returned /\ Len(inv') >= i /\ inv'[i].returned) =>
                  /\ Len(inv') = Len(inv)
                  /\ UNCHANGED <<queue, count, ticks, timers, nextTimerId, hist, log,
                                 finishSubject, called>>]_vars

\* a method has returned without its done callback called and is still the
\* first entry, after another item was completed
C11_Witness ==
    \E i, j \in 1..Len(inv) :
        /\ inv[i].returned /\ NeverDone(inv[i].phase, inv[i].key)
        /\ queue[inv[i].phase][1].key = inv[i].key
        /\ inv[j].done > 0
        /\ inv[j].key # inv[i].key

\* C12: the timeout armed for a call of a method never falls due once the done
\* callback bound for that call has been called.
C12_DoneCancelsWatchdog ==
    [][\A t \in timers :
           WatchdogFires(t) =>
               \A i \in 1..Len(inv) : inv[i].timer = t.id => inv[i].done = 0]_vars

\* how often the history has the event
Count(ev, p) == Cardinality({n \in 1..Len(hist) : hist[n] = Event(ev, p)})

\* how often the nextTick queue holds the callback
Pending(thunk) == Cardinality({n \in 1..Len(ticks) : ticks[n] = thunk})

\* how often what follows phase p has been run
Followed(p) ==
    IF PhaseIndex(p) < Len(PhaseOrder)
    THEN Count("start", PhaseOrder[PhaseIndex(p) + 1])
    ELSE IF rootResolved = "no" THEN 0 ELSE 1

\* this step hands the one value of p's count to the subscriber of bootstrap
Drains(p) == Len(hist') > Len(hist) /\ hist'[Len(hist')] = Event("drained", p)

\* C13: the subscriber bootstrap put on a phase's count gets a value at most
\* once, in the step in which the Map of the phase becomes or is found empty
\* and the count completes; what follows the phase is scheduled and run as
\* often as that, however many done callbacks are called later.
C13_DrainedOnce ==
    /\ [](\A p \in PhaseNames :
              /\ Count("drained", p) <= 1
              /\ Count("drained", p) = 1 <=>
                     (isBootstrapped /\ queue[p] = <<>> /\ count[p].stopped)
              /\ Pending(AfterPhase(p)) + Followed(p) = Count("drained", p))
    /\ [][\A p \in PhaseNames :
              Drains(p) =>
                  /\ ~count[p].stopped /\ count'[p].stopped
                  /\ queue'[p] = <<>>]_vars

\* the done callback of the only item of a phase was called again after the
\* phase had drained
C13_Witness ==
    \E i \in 1..Len(inv) :
        /\ inv[i].done = 2
        /\ RegisteredKeys(inv[i].phase) = {inv[i].key}
        /\ Count("drained", inv[i].phase) = 1

\* what this step adds to the history
NewEvents == SubSeq(hist', Len(hist) + 1, Len(hist'))

\* the calls of methods this step makes
NewCalls == SubSeq(inv', Len(inv) + 1, Len(inv'))

\* C14: the step in which phase p drains calls no method of another phase,
\* starts no other phase and does not resolve the root target: it leaves what
\* follows p as the newest callback of the nextTick queue. processQueue of a
\* phase and the resolution of the root target only run as the oldest
\* callback of that queue.
C14_NextPhaseOnNextTick ==
    [][/\ \A p \in PhaseNames :
              Drains(p) =>
                  /\ \A n \in 1..Len(NewCalls) : NewCalls[n].phase = p
                  /\ \A n \in 1..Len(NewEvents) : NewEvents[n].phase = p
                  /\ UNCHANGED <<rootResolved, finishSubject, called>>
                  /\ ticks' # <<>> /\ ticks'[Len(ticks')] = AfterPhase(p)
       /\ \A n \in 1..Len(NewEvents) :
              NewEvents[n].ev = "start" =>
                  /\ ticks # <<>>
                  /\ Head(ticks) = Thunk("processQueue", NewEvents[n].phase)
       /\ \A n \in 1..Len(NewCalls) :
              \/ Count("start", NewCalls[n].phase) = 1
              \/ /\ ticks # <<>>
                 /\ Head(ticks) = Thunk("processQueue", NewCalls[n].phase)
       /\ rootResolved' # rootResolved =>
              /\ ticks # <<>>
              /\ Head(ticks) = Thunk("finishUpBooting", NoPhase)]_vars

\* a done callback has drained a phase and the next phase, which has an
\* item, has not been started: its processQueue waits in the nextTick queue
C14_Witness ==
    \E p \in PhaseNames :
        /\ PhaseIndex(p) < Len(PhaseOrder)
        /\ Count("drained", p) = 1
        /\ \E i \in 1..Len(inv) : inv[i].phase = p /\ inv[i].done > 0
        /\ queue[PhaseOrder[PhaseIndex(p) + 1]] # <<>>
        /\ Count("start", PhaseOrder[PhaseIndex(p) + 1]) = 0
        /\ Pending(AfterPhase(p)) = 1

WarmUps == {t \in timers : t.kind = "warmup"}

\* C15: until the warm-up timeout of 125 ms has run, no method has been called,
\* no processQueue has run, no count has completed and nothing waits in the
\* nextTick queue; bootstrap arms that one timeout, and once it has run
\* processQueue of the first phase is scheduled or has run, once.
C15_NothingBeforeWarmUp ==
    /\ ~startingSubject.stopped =>
           /\ inv = <<>> /\ hist = <<>> /\ ticks = <<>>
           /\ \A p \in PhaseNames : ~count[p].stopped
           /\ Watchdogs = {}
           /\ isBootstrapped =>
                  /\ Cardinality(WarmUps) = 1
                  /\ \A t \in WarmUps : t.duration = WarmUpDelay
    /\ Pending(Thunk("processQueue", PhaseOrder[1])) + Count("start", PhaseOrder[1])
           = IF startingSubject.stopped THEN 1 ELSE 0
    /\ \A n \in 1..Len(hist) : hist[n].ev = "start" => hist[1] = Event("start", PhaseOrder[1])

\* bootstrap has returned with an item in the first phase and an empty phase
\* behind it, and the warm-up timeout has not run
C15_Witness ==
    /\ isBootstrapped
    /\ ~startingSubject.stopped
    /\ queue[PhaseOrder[1]] # <<>>
    /\ \E p \in PhaseNames : queue[p] = <<>>

\* the phases processQueue has been run for, in the order of the runs
Started ==
    LET starts == SelectSeq(hist, LAMBDA e : e.ev = "start")
    IN [n \in 1..Len(starts) |-> PhaseIndex(starts[n].phase)]

\* where the loader is: 0 before bootstrap, 1 warming up, 1 + k with phase k
\* the last one started, 6 with the finish subject completed
Stage ==
    IF finishSubject.stopped THEN Len(PhaseOrder) + 2
    ELSE IF ~isBootstrapped THEN 0
    ELSE IF Started = <<>> THEN 1
    ELSE 1 + Started[Len(Started)]

\* C16: the loader never goes back: processQueue runs for the phases in their
\* order, once each and none skipped; the finish subject completes only after
\* all four have drained and the root target resolved, and after that no
\* processQueue runs, no method is called and no callback of done() is called.
C16_ForwardOnly ==
    /\ [](/\ \A n \in 1..Len(Started) : Started[n] = n
          /\ finishSubject.stopped =>
                 /\ Len(Started) = Len(PhaseOrder)
                 /\ AllDrained
                 /\ rootResolved = "yes")
    /\ [][/\ Stage' >= Stage
          /\ finishSubject.stopped =>
                 /\ Len(inv') = Len(inv)
                 /\ UNCHANGED <<hist, queue, count, ticks, called, finishSubject,
                                isBootstrapped, rootResolved>>]_vars

\* the loader has finished after running items, and done() was called later
C16_Witness ==
    /\ finishSubject.stopped
    /\ Len(inv) >= 2
    /\ \E c \in Callbacks : registered[c] = "after"

\* the entries of a Map, as a set
Entries(m) == {m[n] : n \in 1..Len(m)}

\* in this step a done callback bound for key in phase p is called
DoneCalled(p, key) ==
    \E i \in 1..Len(inv') :
        /\ inv'[i].phase = p /\ inv'[i].key = key
        /\ inv'[i].done > (IF i <= Len(inv) THEN inv[i].done ELSE 0)

\* C17: after bootstrap a step only takes entries out of the Maps, in place,
\* and only entries whose done callback it calls; a registration made then
\* changes no Map, and every method called is that of an entry of a Map.
C17_QueuesOnlyShrink ==
    [][isBootstrapped =>
           /\ \A p \in PhaseNames :
                  /\ queue'[p] = SelectSeq(queue[p], LAMBDA e : e \in Entries(queue'[p]))
                  /\ \A e \in Entries(queue[p]) \ Entries(queue'[p]) :
                         DoneCalled(p, e.key)
           /\ meta' # meta => queue' = queue /\ Len(inv') = Len(inv)
           /\ \A n \in 1..Len(NewCalls) :
                  [key |-> NewCalls[n].key, value |-> NewCalls[n].item]
                      \in Entries(queue[NewCalls[n].phase])]_vars

\* an item registered after bootstrap was never called, and its phase has
\* drained after running another item
C17_Witness ==
    /\ isBootstrapped
    /\ \E n \in 1..Len(meta) :
           /\ HasMethod(meta[n].target, meta[n].methodName)
           /\ Resolves(meta[n].target)
           /\ count[meta[n].type].stopped
           /\ \E i \in 1..Len(inv) : inv[i].phase = meta[n].type
           /\ \A i \in 1..Len(inv) :
                  ~(inv[i].phase = meta[n].type /\ inv[i].key = Identifier(meta[n]))

\* the last descriptor registered for phase p under key
LastOfKey(p, key) ==
    LET last == CHOOSE i \in 1..Len(meta) :
                    /\ meta[i].type = p /\ Identifier(meta[i]) = key
                    /\ \A j \in (i + 1)..Len(meta) :
                           ~(meta[j].type = p /\ Identifier(meta[j]) = key)
    IN meta[last]

\* C18: when bootstrap returns, the Map of each phase has one entry for each
\* key registered in the phase, in the order in which the keys were first
\* registered, and the entry is the descriptor registered last under the key.
C18_LastRegistrationWins ==
    [][(~isBootstrapped /\ isBootstrapped') =>
           \A p \in PhaseNames :
               /\ Len(queue'[p]) = Len(RegistrationOrder(p))
               /\ \A n \in 1..Len(queue'[p]) :
                      /\ queue'[p][n].key = RegistrationOrder(p)[n]
                      /\ queue'[p][n].value = LastOfKey(p, queue'[p][n].key)]_vars

\* bootstrap has read two descriptors of one phase with one key and different
\* timeouts, and the Map holds the second
C18_Witness ==
    /\ isBootstrapped
    /\ ~startingSubject.stopped
    /\ \E i, j \in 1..Len(meta) :
           /\ i < j
           /\ meta[i].type = meta[j].type
           /\ Identifier(meta[i]) = Identifier(meta[j])
           /\ meta[i].doneCheckTimeout # meta[j].doneCheckTimeout
           /\ Len(queue[meta[j].type]) = 1
           /\ queue[meta[j].type][1].value = meta[j]

\* the key a log entry names
LogKey(n) == log[n].moduleName \o <<"_">> \o log[n].methodName

\* running the item fails: its target does not resolve or its method throws
Fails(item) == ~Resolves(item.target) \/ Throws(item.target, item.methodName)

\* processQueueItem has rejected for the first entry of phase p, and no done
\* callback of that entry has been called
FailedAt(p) ==
    /\ queue[p] # <<>>
    /\ Fails(queue[p][1].value)
    /\ NeverDone(p, queue[p][1].key)
    /\ \E n \in 1..Len(log) : log[n].kind = "rejected" /\ LogKey(n) = queue[p][1].key

\* a method with this key had called its done callback when it threw
DoneBeforeThrow(key) ==
    \E i \in 1..Len(inv) :
        /\ inv[i].key = key
        /\ inv[i].done > 0
        /\ Throws(inv[i].item.target, inv[i].item.methodName)

DoneAgain(i) == inv[i].done > 0 /\ Len(inv') >= i /\ inv'[i].done > inv[i].done

\* C20: a step in which a done callback is called that was called before
\* takes no entry out of a Map, calls no method, arms no timeout and hands no
\* value to a subscriber of bootstrap.
C20_SecondDoneNoOp ==
    [][\A i \in 1..Len(inv) :
           DoneAgain(i) =>
               /\ queue' = queue
               /\ Len(inv') = Len(inv)
               /\ timers' \subseteq timers
               /\ UNCHANGED <<hist, ticks>>]_vars

\* C21: the n-th method called in a phase is that of the n-th key in the order
\* of the keys' first registrations, and it is called with the descriptor
\* registered last under that key.
C21_FirstPlaceLastData ==
    \A p \in PhaseNames :
        /\ Len(CalledKeys(p)) <= Len(RegistrationOrder(p))
        /\ \A n \in 1..Len(CalledKeys(p)) :
               LET call == SelectSeq(inv, LAMBDA c : c.phase = p)[n]
               IN /\ call.key = RegistrationOrder(p)[n]
                  /\ call.item = LastOfKey(p, call.key)

\* a key was registered, then another key, then the first key again with
\* another timeout; both methods have been called
C21_Witness ==
    \E i, j, k \in 1..Len(meta) :
        /\ i < j /\ j < k
        /\ meta[i].type = meta[j].type /\ meta[j].type = meta[k].type
        /\ Identifier(meta[i]) = Identifier(meta[k])
        /\ Identifier(meta[i]) # Identifier(meta[j])
        /\ meta[i].doneCheckTimeout # meta[k].doneCheckTimeout
        /\ CalledKeys(meta[i].type) = <<Identifier(meta[i]), Identifier(meta[j])>>

\* the descriptor is for this target and method in this phase
SamePair(item, d) ==
    item.type = d.type /\ item.target = d.target /\ item.methodName = d.methodName

\* C22: descriptors of one phase that differ in target or method have
\* different keys, and after bootstrap each of them has an entry of its own
\* in the Map of the phase or has had its method called.
C22_DistinctPairsBothRun ==
    /\ \A i, j \in 1..Len(meta) :
           (meta[i].type = meta[j].type /\ ~SamePair(meta[i], meta[j])) =>
               Identifier(meta[i]) # Identifier(meta[j])
    /\ isBootstrapped =>
           \A i \in 1..Len(meta) :
               \/ \E e \in Entries(queue[meta[i].type]) : SamePair(e.value, meta[i])
               \/ \E c \in 1..Len(inv) : SamePair(inv[c].item, meta[i])

\* the listeners and entity handlers of the service that autoStart has started
ListenerStarted(tr, event) ==
    \E n \in 1..Len(tr) :
        /\ tr[n].op \in {"eventOn", "eventOnce"}
        /\ tr[n].eventName = event.eventName
        /\ tr[n].targetName = event.targetName
        /\ tr[n].methodName = event.methodName
HandlersStarted(tr, type) ==
    \E n \in 1..Len(tr) : tr[n].op = "listenHandlerForType" /\ tr[n].type = type
DoneCalls(tr) == {n \in 1..Len(tr) : tr[n].op = "done"}

\* C23: a call of autoStart returns having called done exactly once, as the
\* last thing it did, whatever the events and handlers lists hold, with the
\* listener of every event and the handlers of every handler type that the
\* lists held at the call started before it.
C23_DoneOnceAfterStarting ==
    [][(outcome = "none" /\ outcome' # "none") =>
           /\ outcome' = "returned"
           /\ Cardinality(DoneCalls(trace')) = 1
           /\ trace'[Len(trace')].op = "done"
           /\ \A k \in 1..Len(events) : ListenerStarted(trace', events[k])
           /\ \A h \in 1..Len(handlers) : HandlersStarted(trace', handlers[h].type)]_vars

\* the first use of @Cmd with the command name of the n-th use
FirstUse(n) ==
    decorated[CHOOSE k \in 1..n :
                  /\ decorated[k].data.eventName = decorated[n].data.eventName
                  /\ \A j \in 1..(k - 1) :
                         decorated[j].data.eventName # decorated[n].data.eventName]

\* C24: after any uses of @Cmd the metadata list has one entry for each
\* command name used and no more, and the entry is that of the first use of
\* the name.
C24_OneEntryOfFirstUse ==
    \A n \in 1..Len(decorated) :
        LET list == GetAtlasMetaData(commands)
            entries == {k \in 1..Len(list) :
                            list[k].eventName = decorated[n].data.eventName}
        IN /\ Cardinality(entries) = 1
           /\ \A k \in entries : list[k] = FirstUse(n).data

====
